---------------------------- MODULE Spec2Model ----------------------------
(***************************************************************************)
(* State-machine model of the AI DungeonMaster browser front end.           *)
(*                                                                          *)
(* The repository holds three builds of the same front end:                 *)
(*   "script"  : src/static/js/script.js   (prompt input, no quit button)   *)
(*   "part"    : src/unnamed/part_001      (prompt input, quit button)      *)
(*   "effects" : src/static/js/effects.js  (contentEditable story region,   *)
(*               end-adventure button, effects layer in the same file)      *)
(* The build is chosen in Init and never changes.  Functions of the page    *)
(* are operators from page state to page state, composed in the order the   *)
(* code calls them; one action of Next is one task of the browser's event   *)
(* loop (a user event, a timer callback, a fetch completion followed by     *)
(* the awaiting handler's continuation).                                    *)
(*                                                                          *)
(* Texts are sequences of one-character strings; "<br>" is one token.       *)
(***************************************************************************)
EXTENDS Integers, Sequences, FiniteSets, TLC

VARIABLES
    variant,          \* which build of the front end runs on the page
    fx,               \* window.dungeonEffects (typeStory, sounds) is present
    currentSessionId, \* let currentSessionId
    page,             \* isLoading, the DOM regions and the page's timers
    inflight,         \* fetch() calls whose promise has not settled yet
    clickTimers,      \* pending setTimeout(() => handleChoiceClick(text), 300)
    last              \* history: the task that ran last and what it did

vars == <<variant, fx, currentSessionId, page, inflight, clickTimers, last>>

----------------------------------------------------------------------------
(* Bounds of the model *)

MaxClickTimers == 1   \* pending 300 ms choice-click timers
MaxEnableTimers == 1  \* pending setTimeout(enableInteraction) timers
MaxInflight == 2      \* unsettled fetch() calls
MaxStoryNodes == 3    \* child nodes of the story region

----------------------------------------------------------------------------
(* Texts *)

Digit == {"1", "2"}
Whitespace == {" ", "\n"}
BR == "<br>"

RECURSIVE trimStart(_)
trimStart(s) ==
    IF s # <<>> /\ Head(s) \in Whitespace THEN trimStart(Tail(s)) ELSE s

RECURSIVE trimEnd(_)
trimEnd(s) ==
    IF s # <<>> /\ s[Len(s)] \in Whitespace
    THEN trimEnd(SubSeq(s, 1, Len(s) - 1)) ELSE s

\* String.prototype.trim
trim(s) == trimEnd(trimStart(s))

RECURSIVE leadingDigits(_)
leadingDigits(s) ==
    IF s # <<>> /\ Head(s) \in Digit THEN 1 + leadingDigits(Tail(s)) ELSE 0

\* a replace that strips every leading "<digits>." prefix, not the first only
RECURSIVE cleanChoiceText_everyPrefix(_)
cleanChoiceText_everyPrefix(s) ==
    LET n == leadingDigits(s) IN
    IF n >= 1 /\ Len(s) > n /\ s[n + 1] = "."
    THEN cleanChoiceText_everyPrefix(trimStart(SubSeq(s, n + 2, Len(s))))
    ELSE s

\* originalChoiceText.replace(/^\d+\.\s*/, '')
cleanChoiceText(s) ==
    LET n == leadingDigits(s) IN
    IF n >= 1 /\ Len(s) > n /\ s[n + 1] = "."
    THEN trimStart(SubSeq(s, n + 2, Len(s)))
    ELSE s

\* text.split('\n') : the lines of s, in order (always at least one)
RECURSIVE split(_, _)
split(s, cur) ==
    IF s = <<>> THEN <<cur>>
    ELSE IF Head(s) = "\n" THEN <<cur>> \o split(Tail(s), <<>>)
    ELSE split(Tail(s), Append(cur, Head(s)))

RECURSIVE joinBr(_)
joinBr(ls) ==
    IF ls = <<>> THEN <<>>
    ELSE IF Len(ls) = 1 THEN ls[1]
    ELSE ls[1] \o <<BR>> \o joinBr(Tail(ls))

RECURSIVE trimmedNonEmpty(_)
trimmedNonEmpty(ls) ==
    IF ls = <<>> THEN <<>>
    ELSE LET l == trim(Head(ls)) IN
         IF l = <<>> THEN trimmedNonEmpty(Tail(ls))
         ELSE <<l>> \o trimmedNonEmpty(Tail(ls))

\* text.split('\n').map(line => line.trim()).filter(line => line).join('<br>')
formattedText(s) == joinBr(trimmedNonEmpty(split(s, <<>>)))


----------------------------------------------------------------------------
(* Fixed texts of the page.  A message is a one-token text. *)

NoText == <<>>
storyOutputPlaceholderText == <<"Type your adventure's beginning here...">>
WelcomeText == <<"Enter a description below to start your AI-powered adventure!">>
GeneratingText == <<"Generating the start of your adventure...">>
ProcessingText == <<"Processing your choice...">>
NoSceneText == <<"(The story didn't generate text for this turn.)">>
SessionMissingText == <<"Session ID is missing. Please refresh the page.">>
SessionMissingText_part ==
    <<"Session ID is missing. Please refresh or ensure it's correctly set up.">>
SessionCriticalText ==
    <<"Critical Error: Session ID not found. Unable to start game. Please refresh.">>
NetworkErrorText == <<"Network error or server unavailable.">>
NonJsonText == <<"Received unexpected non-JSON response from server.">>
NonJsonStatusText == <<"Server returned non-JSON response: <status>">>
JsonSyntaxErrorText == <<"SyntaxError: Unexpected token">>
StatusText == <<"Request failed with status <status>">>
StatusText_part == <<"Request failed with status <status>.">>
FetchErrorText == <<"Failed to fetch">>

----------------------------------------------------------------------------
(* Inputs: what the user may type and what the backend may answer. *)

Prompts == { <<>>, <<" ">>, <<" ", "g">> }

Scenes == { <<>>, <<"a", "\n", " ", "b">> }

ChoiceLists ==
    { <<>>, << <<"1", ".", " ", "L">>, <<"2", ".", " ">> >> }

Urls == { NoText, <<"url">> }

BackendErrors == { NoText, <<"backend says no">> }

\* a field of a response body that is truthy and not a string (5, {})
NotAString == <<"<not a string>">>

\* null or undefined given where a text is expected
Null == <<"<null>">>

\* a `choices` that is truthy and not an array ("abc", {})
NotAnArray == << <<"<not an array>">> >>

\* A settled fetch: `status` is "ok" (2xx, JSON body), "http" (non-2xx, JSON
\* body), "nonjson" (2xx, body is not JSON), "nonjson_http" (non-2xx, body is
\* not JSON) or "network" (fetch rejected with `error` as its message).
Response(st, sc, ch, im, au, er) ==
    [status |-> st, scene |-> sc, choices |-> ch,
     image_url |-> im, audio_url |-> au, error |-> er]

NoResponse == Response("none", NoText, <<>>, NoText, NoText, NoText)

Responses ==
    { Response("ok", sc, ch, im, au, er) :
        sc \in Scenes, ch \in ChoiceLists, im \in Urls, au \in Urls,
        er \in BackendErrors }
    \cup { Response("http", NoText, <<>>, NoText, NoText, er) :
             er \in BackendErrors }
    \cup { Response(st, NoText, <<>>, NoText, NoText, NoText) :
             st \in {"nonjson", "nonjson_http"} }
    \cup { Response("network", NoText, <<>>, NoText, NoText, er) :
             er \in {NoText, FetchErrorText} }

\* non-2xx answers whose JSON body has the fields of a turn as well
FailureBodies ==
    { Response("http", <<"a", "\n", " ", "b">>,
               << <<"1", ".", " ", "L">>, <<"2", ".", " ">> >>,
               <<"url">>, <<"url">>, er) : er \in BackendErrors }

\* 2xx bodies whose `scene` is not a string, or whose `choices` is not an
\* array of strings
MalformedChoices ==
    { NotAnArray, <<NotAString>>, << <<"1", ".", " ", "L">>, NotAString >> }

MalformedResponses ==
    { Response("ok", NotAString, <<>>, <<"url">>, <<"url">>, NoText) }
    \cup { Response("ok", <<"a", "\n", " ", "b">>, ch, <<"url">>, <<"url">>, NoText) :
             ch \in MalformedChoices }

----------------------------------------------------------------------------
(* The DOM regions *)

Node(k, v) == [k |-> k, v |-> v]
placeholderP == Node("p.italic", storyOutputPlaceholderText)
errorElement(message) == Node("errorDiv", message)
warningElement(message) == Node("warning", message)
cursor == Node("cursor", NoText)

RECURSIVE textContent(_)
textContent(children) ==
    IF children = <<>> THEN <<>>
    ELSE Head(children).v \o textContent(Tail(children))

hasPlaceholderP(children) ==
    \E i \in 1..Len(children) : children[i] = placeholderP

NoTypewriter == [on |-> FALSE, segs |-> <<>>, seg |-> 1, ch |-> 1, content |-> <<>>]

EmptyChoices == [heading |-> FALSE, buttons |-> <<>>, endMessage |-> FALSE]


----------------------------------------------------------------------------
(* UI interaction control.  Every function below takes the page and gives  *)
(* the page after the call; `v` is the build whose code runs.               *)

\* initialPromptArea / initialPromptContainer is shown ("script", "part"),
\* storyOutput.contentEditable === 'true' ("effects")
promptShown(v, p) == IF v = "effects" THEN p.editable ELSE ~p.promptHidden

setDisabled(buttons, d) ==
    [i \in 1..Len(buttons) |-> [buttons[i] EXCEPT !.disabled = d]]

disableInteraction(v, p) ==
    [p EXCEPT !.isLoading = TRUE,
              !.overlayShown = TRUE,
              !.choices.buttons = setDisabled(@, TRUE),
              !.startDisabled = TRUE,
              !.quitDisabled = IF v = "part" THEN TRUE ELSE @]

\* enableInteraction that enables the start button whatever the page shows
enableInteraction_startAlways(v, p) ==
    [p EXCEPT !.isLoading = FALSE,
              !.overlayShown = FALSE,
              !.choices.buttons = setDisabled(@, FALSE),
              !.startDisabled = FALSE,
              !.quitDisabled = IF v = "part" THEN p.quitHidden ELSE @]

enableInteraction(v, p) ==
    [p EXCEPT !.isLoading = FALSE,
              !.overlayShown = FALSE,
              !.choices.buttons = setDisabled(@, FALSE),
              !.startDisabled = ~promptShown(v, p),
              !.quitDisabled = IF v = "part" THEN p.quitHidden ELSE @]

----------------------------------------------------------------------------
(* UI update functions *)

RECURSIVE splitBr(_, _)
\* text.split('<br>')
splitBr(s, cur) ==
    IF s = <<>> THEN <<cur>>
    ELSE IF Head(s) = BR THEN <<cur>> \o splitBr(Tail(s), <<>>)
    ELSE splitBr(Tail(s), Append(cur, Head(s)))

\* storyOutput.innerHTML = '': the nodes of a chain that is typing leave the
\* document, and the chain keeps its timers.  What a superseded render left
\* pending (such chains, and the load of an image) is kept where
\* p.trackPending asks for it, and left out elsewhere.
detach(p) ==
    IF p.trackPending /\ p.tw.on THEN [p EXCEPT !.stale = Append(@, p.tw)] ELSE p

\* window.dungeonEffects.typeStory: a fresh paragraph and cursor replace the
\* region's content and the first typeNextChar timer is set.  A chain that
\* was typing before keeps its timers, but they write to nodes that are no
\* longer in the document.
typeStory(p, text) ==
    [detach(p) EXCEPT !.story = <<Node("p", NoText), cursor>>,
              !.tw = [on |-> TRUE, segs |-> splitBr(text, <<>>),
                      seg |-> 1, ch |-> 1, content |-> NoText]]

\* a typeNextChar that writes the paragraph when it moves to the next segment
typeNextChar_writesBreak(p) ==
    LET tw == p.tw IN
    IF tw.seg > Len(tw.segs)
    THEN [p EXCEPT !.story = SelectSeq(@, LAMBDA n : n # cursor),
                   !.tw = NoTypewriter]
    ELSE IF tw.ch <= Len(tw.segs[tw.seg])
    THEN LET content == Append(tw.content, tw.segs[tw.seg][tw.ch]) IN
         [p EXCEPT !.story[1] = Node("p", content),
                   !.tw.content = content,
                   !.tw.ch = @ + 1]
    ELSE [p EXCEPT !.story[1] = Node("p", Append(tw.content, BR)),
                   !.tw.content = Append(@, BR),
                   !.tw.seg = @ + 1,
                   !.tw.ch = 1]

\* typeNextChar, one call: the cursor is removed when the segments are used
\* up; a character is added to currentContent and the paragraph rewritten;
\* or '<br>' is added to currentContent alone and the next segment begun
typeNextChar(p) ==
    LET tw == p.tw IN
    IF tw.seg > Len(tw.segs)
    THEN [p EXCEPT !.story = SelectSeq(@, LAMBDA n : n # cursor),
                   !.tw = NoTypewriter]
    ELSE IF tw.ch <= Len(tw.segs[tw.seg])
    THEN LET content == Append(tw.content, tw.segs[tw.seg][tw.ch]) IN
         [p EXCEPT !.story[1] = Node("p", content),
                   !.tw.content = content,
                   !.tw.ch = @ + 1]
    ELSE [p EXCEPT !.tw.content = Append(@, BR),
                   !.tw.seg = @ + 1,
                   !.tw.ch = 1]

\* storyOutput.innerHTML = '' followed by appending `children`
setStory(p, children) ==
    [detach(p) EXCEPT !.story = children, !.tw = NoTypewriter]

\* a typeNextChar of a detached chain that looks up the paragraph and the
\* cursor in the document
staleTypeNextChar_inDocument(p, i) ==
    LET tw == p.stale[i] IN
    IF tw.seg > Len(tw.segs)
    THEN [p EXCEPT !.stale[i] = NoTypewriter,
                   !.story = SelectSeq(@, LAMBDA n : n # cursor)]
    ELSE IF tw.ch <= Len(tw.segs[tw.seg])
    THEN LET content == Append(tw.content, tw.segs[tw.seg][tw.ch]) IN
         [p EXCEPT !.stale[i].content = content,
                   !.stale[i].ch = @ + 1,
                   !.story = IF @ = <<>> THEN @
                             ELSE [@ EXCEPT ![1] = Node("p", content)]]
    ELSE [p EXCEPT !.stale[i].content = Append(@, BR),
                   !.stale[i].seg = @ + 1,
                   !.stale[i].ch = 1]

\* typeNextChar of a detached chain: `paragraph` and `cursor` are the nodes
\* its typeStory call created, which are no longer in the document
staleTypeNextChar(p, i) ==
    LET tw == p.stale[i] IN
    IF tw.seg > Len(tw.segs)
    THEN [p EXCEPT !.stale[i] = NoTypewriter]
    ELSE IF tw.ch <= Len(tw.segs[tw.seg])
    THEN [p EXCEPT !.stale[i].content = Append(@, tw.segs[tw.seg][tw.ch]),
                   !.stale[i].ch = @ + 1]
    ELSE [p EXCEPT !.stale[i].content = Append(@, BR),
                   !.stale[i].seg = @ + 1,
                   !.stale[i].ch = 1]

\* a TypeError leaves the function; what follows in the callers is skipped
throwTypeError(p) == [p EXCEPT !.uncaught = TRUE]

\* a typewriter that keeps the page busy while it types
renderStory_busyTyping(f, p, text) ==
    IF f THEN [typeStory(p, formattedText(text)) EXCEPT !.isLoading = TRUE]
    ELSE setStory(p, <<Node("p", formattedText(text))>>)

\* storyOutput.innerHTML = '' was done; text.split is not a function when
\* text is not a string
renderStory(f, p, text) ==
    IF text \in {NotAString, Null} THEN throwTypeError(setStory(p, <<>>))
    ELSE IF f THEN typeStory(p, formattedText(text))
    ELSE setStory(p, <<Node("p", formattedText(text))>>)

updateStoryOutput_script(f, p, text) == renderStory(f, p, text)

updateStoryOutput_part(f, p, text, isError) ==
    IF isError THEN setStory(p, <<errorElement(text)>>)
    ELSE renderStory(f, p, text)

updateStoryOutput_effects(f, p, text) ==
    IF p.editable
    THEN IF text = storyOutputPlaceholderText THEN setStory(p, <<>>) ELSE p
    ELSE renderStory(f, p, text)

updateStoryOutput(v, f, p, text) ==
    CASE v = "script" -> updateStoryOutput_script(f, p, text)
      [] v = "part" -> updateStoryOutput_part(f, p, text, FALSE)
      [] v = "effects" -> updateStoryOutput_effects(f, p, text)

\* sceneImage.src = imageUrl starts a load, and removeAttribute('src') leaves
\* none; the load under way before is given up, and the browser may already
\* have its failure to report (`late`).  Neither branch takes the onerror
\* handler of the earlier call away.
supersedeLoad(p, starts) ==
    IF p.trackPending
    THEN [p EXCEPT !.loads = [loading |-> starts,
                              late |-> @.late \/ @.loading]]
    ELSE p

\* script.js and effects.js write the default placeholder first and, for an
\* absent URL, replace it by "No visual generated."; part_001 writes the
\* default placeholder for an absent URL only.  `ph` is what the placeholder
\* holds: "default" (Scene visuals will appear here.), "novisual" (No visual
\* generated.) or "error" (Error loading image.).
updateSceneImage(v, p, imageUrl) ==
    IF imageUrl # NoText
    THEN [supersedeLoad(p, TRUE)
             EXCEPT !.image = [src |-> imageUrl, hidden |-> FALSE,
                               phHidden |-> TRUE,
                               ph |-> IF v = "part" THEN @.ph ELSE "default"]]
    ELSE [supersedeLoad(p, FALSE)
             EXCEPT !.image = [src |-> NoText, hidden |-> TRUE,
                               phHidden |-> FALSE,
                               ph |-> IF v = "part" THEN "default"
                                      ELSE "novisual"]]

\* Setting src and calling load() starts the new resource paused; the play()
\* of effects.js, or the user with the controls of the player, starts the
\* playback later (AudioPlay).  Removing the src attribute does not stop a
\* playback under way: part_001 and effects.js call pause() then, script.js
\* does not.
updateAudioPlayer(v, p, audioUrl) ==
    IF audioUrl # NoText
    THEN [p EXCEPT !.audio = [src |-> audioUrl, hidden |-> FALSE,
                              playing |-> FALSE]]
    ELSE [p EXCEPT !.audio = [src |-> NoText, hidden |-> TRUE,
                              playing |-> IF v = "script" THEN @.playing
                                          ELSE FALSE]]

\* sceneImage.onerror, as updateSceneImage sets it
imageError(p) ==
    [p EXCEPT !.image = [@ EXCEPT !.hidden = TRUE, !.phHidden = FALSE,
                                  !.ph = "error"],
              !.loads.loading = FALSE]

\* the error event of a load that was given up: the handler in
\* sceneImage.onerror runs as for any other
lateImageError(p) ==
    [imageError(p) EXCEPT !.loads = [loading |-> p.loads.loading,
                                     late |-> FALSE]]

choiceButtons(choices) ==
    [i \in 1..Len(choices) |->
        [prefix |-> i, text |-> cleanChoiceText(choices[i]), disabled |-> FALSE]]

\* the elements choices.forEach reaches before originalChoiceText.replace
\* is not a function
RECURSIVE leadingStrings(_)
leadingStrings(choices) ==
    IF choices = <<>> \/ Head(choices) = NotAString THEN <<>>
    ELSE <<Head(choices)>> \o leadingStrings(Tail(choices))

\* the heading is appended before choices.forEach is called; a button is
\* appended at the end of its iteration
updateChoices(v, p, choices) ==
    IF choices = <<>>
    THEN [p EXCEPT !.choices = [EmptyChoices EXCEPT
                                    !.endMessage = ~promptShown(v, p)]]
    ELSE IF choices = NotAnArray
    THEN throwTypeError([p EXCEPT !.choices = [heading |-> TRUE,
                                               buttons |-> <<>>,
                                               endMessage |-> FALSE]])
    ELSE LET strings == leadingStrings(choices)
             q == [p EXCEPT !.choices = [heading |-> TRUE,
                                         buttons |-> choiceButtons(strings),
                                         endMessage |-> FALSE]]
         IN  IF strings = choices THEN q ELSE throwTypeError(q)

clearChoices(p) == [p EXCEPT !.choices = EmptyChoices]

displayError_script(p, message) ==
    LET p1 == setStory(p, <<errorElement(message)>>)
        p2 == clearChoices(p1)
        p3 == updateSceneImage("script", p2, NoText)
        p4 == updateAudioPlayer("script", p3, NoText)
    IN  [p4 EXCEPT !.promptHidden = FALSE]

displayError_part(p, message) ==
    LET p1 == updateStoryOutput_part(FALSE, p, message, TRUE)
        p2 == updateChoices("part", p1, <<>>)
        p3 == updateSceneImage("part", p2, NoText)
        p4 == updateAudioPlayer("part", p3, NoText)
    IN  [p4 EXCEPT !.promptHidden = FALSE,
                   !.startHidden = FALSE,
                   !.quitHidden = TRUE]

displayError_effects(p, message) ==
    LET p1 == setStory([p EXCEPT !.editable = TRUE],
                       <<errorElement(message), placeholderP>>)
        p2 == clearChoices(p1)
        p3 == updateSceneImage("effects", p2, NoText)
        p4 == updateAudioPlayer("effects", p3, NoText)
        p5 == [p4 EXCEPT !.startHidden = FALSE, !.quitHidden = TRUE]
    IN  enableInteraction("effects", p5)

displayError(v, p, message) ==
    CASE v = "script" -> displayError_script(p, message)
      [] v = "part" -> displayError_part(p, message)
      [] v = "effects" -> displayError_effects(p, message)


----------------------------------------------------------------------------
(* API interaction.  postToBackend runs up to its fetch() in the task of   *)
(* the handler that called it (postToBackend_send) and from the settling   *)
(* of the fetch to its return in a later task (postToBackend_settle); the  *)
(* handler's own continuation follows in the same task.                    *)

NoSession == ""

\* postToBackend without its check of currentSessionId
postToBackend_send_unchecked(v, sid, p) == disableInteraction(v, p)

\* if (!currentSessionId) { displayError(...); return null; }  disableInteraction();
postToBackend_send(v, sid, p) ==
    IF sid = NoSession
    THEN displayError(v, p, IF v = "part" THEN SessionMissingText_part
                            ELSE SessionMissingText)
    ELSE disableInteraction(v, p)

\* the object literal a handler passes: { prompt } or { choice: choiceText }
payload(endpoint, data) ==
    IF endpoint = "/start" THEN [prompt |-> data] ELSE [choice |-> data]

\* a spread that lets a session_id key of the handler's object win
spread_payloadWins(data, sid) ==
    [k \in DOMAIN data \cup {"session_id"} |->
        IF k \in DOMAIN data THEN data[k] ELSE sid]

\* {...data, session_id: currentSessionId}: the keys of data, then session_id
spread(data, sid) ==
    [k \in DOMAIN data \cup {"session_id"} |->
        IF k = "session_id" THEN sid ELSE data[k]]

\* body: JSON.stringify({...data, session_id: currentSessionId})
Request(endpoint, data, sid) ==
    [endpoint |-> endpoint, data |-> data,
     session_id |-> spread(payload(endpoint, data), sid)["session_id"]]

\* the message of the Error that reaches postToBackend's catch block
errorMessage(v, r) ==
    CASE r.status = "network" ->
            IF r.error # NoText THEN r.error ELSE NetworkErrorText
      [] r.status = "nonjson" ->
            IF v = "part" THEN JsonSyntaxErrorText ELSE NonJsonText
      [] r.status = "nonjson_http" ->
            IF v = "part" THEN JsonSyntaxErrorText ELSE NonJsonStatusText
      [] r.status = "http" ->
            IF r.error # NoText THEN r.error
            ELSE IF v = "part" THEN StatusText_part ELSE StatusText

\* postToBackend without the setTimeout(enableInteraction) of its finally block
scheduleEnable_dropped(p) == p

\* finally { setTimeout(enableInteraction, 0 or 50); }
scheduleEnable(p) == [p EXCEPT !.enableTimers = @ + 1]

\* postToBackend with enableInteraction() called in its finally block
postToBackend_settle_enableNow(v, p, r) ==
    IF r.status = "ok" THEN enableInteraction(v, p)
    ELSE enableInteraction(v, displayError(v, p, errorMessage(v, r)))

postToBackend_settle(v, p, r) ==
    IF r.status = "ok" THEN scheduleEnable(p)
    ELSE scheduleEnable(displayError(v, p, errorMessage(v, r)))

----------------------------------------------------------------------------
(* The sound cues of the effects layer *)

\* soundManager.sounds
SoundCues == {"click", "success", "ambient", "error"}

\* what the browser does with a cue: it plays, `new Audio(...)` (or setting
\* an option) throws, or the promise of audio.play() is rejected
SoundEnvs == {"plays", "throws", "rejected"}

\* a play whose try block has no catch
soundsPlay_uncaught(soundName, env) ==
    IF soundName \notin SoundCues
    THEN [threw |-> FALSE, warned |-> TRUE]
    ELSE [threw |-> env = "throws", warned |-> env = "rejected"]

\* soundManager.play(soundName, options): threw = an exception leaves play;
\* warned = console.warn was called (now, or when the promise is rejected)
soundsPlay(soundName, env) ==
    IF soundName \notin SoundCues
    THEN [threw |-> FALSE, warned |-> TRUE]
    ELSE [threw |-> FALSE, warned |-> env \in {"throws", "rejected"}]

\* if (window.dungeonEffects?.sounds) window.dungeonEffects.sounds.play(...)
cueThrows(f, soundName, env) == f /\ soundsPlay(soundName, env).threw

\* history: what became of the cue of the handler
cueOutcome(f, soundName, env) ==
    IF ~f THEN "none"
    ELSE IF soundsPlay(soundName, env).warned THEN "warned" ELSE "played"

CueEnvs(f) == IF f THEN SoundEnvs ELSE {"plays"}

----------------------------------------------------------------------------
(* Event handlers *)

\* storyOutput.appendChild(warningElement)
appendWarning(p, r) ==
    IF p.uncaught THEN p
    ELSE IF r.error # NoText
    THEN [p EXCEPT !.story = Append(@, warningElement(r.error))]
    ELSE p

\* the four update calls every handler makes with a turn result
renderTurn(v, f, p, r) ==
    LET p1 == updateStoryOutput(v, f, p,
                  IF r.scene # NoText THEN r.scene ELSE NoSceneText)
        p2 == updateSceneImage(v, p1, r.image_url)
        p3 == updateAudioPlayer(v, p2, r.audio_url)
    IN  IF p1.uncaught THEN p1
        ELSE [updateChoices(v, p3, r.choices) EXCEPT !.turnChoices = r.choices]

\* the four update calls every handler makes before its request
renderWaiting(v, f, p, text) ==
    LET p1 == updateStoryOutput(v, f, p, text)
        p2 == updateChoices(v, p1, <<>>)
        p3 == updateSceneImage(v, p2, NoText)
    IN  updateAudioPlayer(v, p3, NoText)

\* updateChoices([]); updateSceneImage(null); updateAudioPlayer(null);
renderWaitingRegions(p) ==
    LET p2 == updateChoices("effects", p, <<>>)
        p3 == updateSceneImage("effects", p2, NoText)
    IN  updateAudioPlayer("effects", p3, NoText)

\* the prompt handleStartClick reads
promptOf(v, p) ==
    IF v = "effects"
    THEN LET t == trim(textContent(p.story)) IN
         IF t = storyOutputPlaceholderText \/ hasPlaceholderP(p.story)
         THEN NoText ELSE t
    ELSE trim(p.promptValue)

\* storyOutput.focus(): the focus listener of effects.js runs when the region
\* gains the focus, and removes the placeholder paragraph
focusStory(p) ==
    IF p.focused THEN p
    ELSE LET q == [p EXCEPT !.focused = TRUE] IN
         IF trim(textContent(p.story)) = storyOutputPlaceholderText
            /\ hasPlaceholderP(p.story)
         THEN setStory(q, <<>>) ELSE q

\* the blur listener of effects.js
blurStory(p) ==
    LET q == [p EXCEPT !.focused = FALSE] IN
    IF trim(textContent(p.story)) = NoText
    THEN setStory(q, <<placeholderP>>) ELSE q

\* handleStartClick with the prompt check done on the untrimmed input value
startAccepted_untrimmed(v, p) ==
    ~p.isLoading /\ (IF v = "effects" THEN promptOf(v, p) ELSE p.promptValue) # NoText

\* handleStartClick up to its call of postToBackend; accepted = the guards passed
startAccepted(v, p) == ~p.isLoading /\ promptOf(v, p) # NoText

startRejected(v, p) ==
    IF p.isLoading THEN p
    ELSE IF v = "effects" THEN focusStory(p) ELSE p

startPrepare_script(f, p) ==
    renderWaiting("script", f, [p EXCEPT !.promptHidden = TRUE], GeneratingText)

startPrepare_part(f, p) ==
    renderWaiting("part", f,
                  [p EXCEPT !.promptHidden = TRUE, !.startHidden = TRUE,
                            !.quitHidden = FALSE],
                  GeneratingText)

startPrepare_effects(p) ==
    LET p1 == [p EXCEPT !.editable = FALSE, !.startHidden = TRUE]
        p2 == setStory(p1, <<Node("p", GeneratingText)>>)
        p3 == updateChoices("effects", p2, <<>>)
        p4 == updateSceneImage("effects", p3, NoText)
    IN  updateAudioPlayer("effects", p4, NoText)

startPrepare(v, f, p) ==
    CASE v = "script" -> startPrepare_script(f, p)
      [] v = "part" -> startPrepare_part(f, p)
      [] v = "effects" -> startPrepare_effects(p)

\* handleStartClick after `await postToBackend(...)` gave a response
startContinue_script(f, p, r) ==
    IF r.error # NoText /\ r.scene = NoText
    THEN [displayError_script(p, r.error) EXCEPT !.promptHidden = FALSE]
    ELSE appendWarning(renderTurn("script", f, p, r), r)

startContinue_part(f, p, r) == appendWarning(renderTurn("part", f, p, r), r)

startContinue_effects(p, r) ==
    LET p0 == [p EXCEPT !.editable = FALSE] IN
    IF r.error # NoText /\ r.scene = NoText
    THEN displayError_effects(p0, r.error)
    ELSE LET p1 == renderTurn("effects", TRUE, p0, r)
             p2 == [p1 EXCEPT !.quitHidden = FALSE, !.startHidden = TRUE]
         IN  IF p1.uncaught THEN p1 ELSE appendWarning(p2, r)

\* handleChoiceClick after `await postToBackend(...)` gave a response
choiceContinue_script(f, p, r) ==
    IF r.error # NoText /\ r.scene = NoText
    THEN displayError_script(p, r.error)
    ELSE appendWarning(renderTurn("script", f, p, r), r)

choiceContinue_part(f, p, r) == appendWarning(renderTurn("part", f, p, r), r)

choiceContinue_effects(p, r) ==
    IF r.error # NoText /\ r.scene = NoText
    THEN displayError_effects(p, r.error)
    ELSE appendWarning(renderTurn("effects", TRUE, p, r), r)

handlerContinue(v, f, p, endpoint, r) ==
    CASE v = "script" /\ endpoint = "/start" -> startContinue_script(f, p, r)
      [] v = "script" /\ endpoint = "/choose" -> choiceContinue_script(f, p, r)
      [] v = "part" /\ endpoint = "/start" -> startContinue_part(f, p, r)
      [] v = "part" /\ endpoint = "/choose" -> choiceContinue_part(f, p, r)
      [] v = "effects" /\ endpoint = "/start" -> startContinue_effects(p, r)
      [] v = "effects" /\ endpoint = "/choose" -> choiceContinue_effects(p, r)

\* the whole task that runs when a fetch settles with r
settle(v, f, p, endpoint, r) ==
    LET p1 == postToBackend_settle(v, p, r) IN
    IF r.status = "ok" THEN handlerContinue(v, f, p1, endpoint, r) ELSE p1

\* handleQuitClick (part_001)
handleQuitClick(f, p) ==
    LET p1 == renderWaiting("part", f, p, WelcomeText)
        p2 == [p1 EXCEPT !.promptValue = NoText, !.promptHidden = FALSE,
                         !.startHidden = FALSE, !.quitHidden = TRUE]
    IN  enableInteraction("part", p2)

\* handleEndAdventureClick (effects.js) after its isLoading guard
handleEndAdventureClick(p) ==
    LET p1 == setStory([p EXCEPT !.editable = TRUE], <<placeholderP>>)
        p2 == focusStory(p1)
        p3 == renderWaitingRegions(p2)
        p4 == clearChoices(p3)
        p5 == [p4 EXCEPT !.startHidden = FALSE, !.quitHidden = TRUE]
    IN  scheduleEnable(p5)


----------------------------------------------------------------------------
(* Page load *)

Variants == {"script", "part", "effects"}
Sessions == {NoSession, "session-1"}

\* the page as the HTML gives it, before any script ran: the elements the
\* scripts look up by id, the story region of "effects" holding the
\* placeholder paragraph
html(v) ==
    [isLoading |-> FALSE,
     overlayShown |-> TRUE,
     startDisabled |-> FALSE,
     startHidden |-> FALSE,
     promptHidden |-> FALSE,
     promptValue |-> NoText,
     quitHidden |-> TRUE,
     quitDisabled |-> FALSE,
     editable |-> FALSE,
     focused |-> FALSE,
     story |-> IF v = "effects" THEN <<placeholderP>> ELSE <<>>,
     tw |-> NoTypewriter,
     stale |-> <<>>,
     trackPending |-> FALSE,
     loads |-> [loading |-> FALSE, late |-> FALSE],
     choices |-> EmptyChoices,
     image |-> [src |-> NoText, hidden |-> TRUE, phHidden |-> FALSE,
                ph |-> "default"],
     audio |-> [src |-> NoText, hidden |-> TRUE, playing |-> FALSE],
     turnChoices |-> <<>>,  \* history: response.choices of the last turn rendered
     uncaught |-> FALSE,    \* an exception is leaving the running task
     enableTimers |-> 0]

\* the DOMContentLoaded listeners
pageLoad_script(f) ==
    LET p0 == [html("script") EXCEPT !.overlayShown = FALSE]
        p1 == updateStoryOutput_script(f, p0, WelcomeText)
        p2 == updateSceneImage("script", p1, NoText)
        p3 == updateAudioPlayer("script", p2, NoText)
    IN  enableInteraction("script", p3)

pageLoad_part(f, sid) ==
    IF sid = NoSession
    THEN [updateStoryOutput_part(f, html("part"), SessionCriticalText, TRUE)
             EXCEPT !.startDisabled = TRUE, !.overlayShown = FALSE]
    ELSE LET p0 == [html("part") EXCEPT !.overlayShown = FALSE]
             p1 == updateStoryOutput_part(f, p0, WelcomeText, FALSE)
             p2 == updateSceneImage("part", p1, NoText)
             p3 == updateAudioPlayer("part", p2, NoText)
             p4 == [p3 EXCEPT !.quitHidden = TRUE, !.promptHidden = FALSE,
                              !.startHidden = FALSE]
         IN  enableInteraction("part", p4)

pageLoad_effects ==
    LET p0 == [html("effects") EXCEPT !.overlayShown = FALSE,
                                      !.quitHidden = TRUE,
                                      !.editable = TRUE]
        p1 == updateSceneImage("effects", p0, NoText)
        p2 == updateAudioPlayer("effects", p1, NoText)
    IN  enableInteraction("effects", p2)

pageLoad(v, f, sid) ==
    CASE v = "script" -> pageLoad_script(f)
      [] v = "part" -> pageLoad_part(f, sid)
      [] v = "effects" -> pageLoad_effects

\* part_001 returns from its DOMContentLoaded listener before it attaches
\* the click listeners when the session identifier is empty
listenersAttached(v, sid) == ~(v = "part" /\ sid = NoSession)

----------------------------------------------------------------------------
(* UI mode, read off the page *)

hasError(children) == \E i \in 1..Len(children) : children[i].k = "errorDiv"

Mode(v, p) ==
    IF p.isLoading THEN "busy"
    ELSE IF promptShown(v, p)
         THEN IF hasError(p.story) THEN "error" ELSE "awaiting-start"
         ELSE "active"

\* threw: the task ended in an exception nothing caught (for an async
\* handler, in an unhandled promise rejection); sound: cueOutcome
Last(op, accepted, sent, endpoint, r) ==
    [op |-> op, accepted |-> accepted, sent |-> sent,
     endpoint |-> endpoint, r |-> r, threw |-> FALSE, sound |-> "none"]

\* a handler that played a cue after its guards and before anything else
LastCued(op, sent, endpoint, f, soundName, env) ==
    [Last(op, TRUE, sent /\ ~cueThrows(f, soundName, env), endpoint, NoResponse)
        EXCEPT !.threw = cueThrows(f, soundName, env),
               !.sound = cueOutcome(f, soundName, env)]

----------------------------------------------------------------------------
(* The state machine *)

Init ==
    /\ variant \in Variants
    /\ fx \in BOOLEAN
    /\ variant = "effects" => fx
    /\ currentSessionId \in Sessions
    /\ page = pageLoad(variant, fx, currentSessionId)
    /\ inflight = <<>>
    /\ clickTimers = <<>>
    /\ last = Last("load", TRUE, FALSE, "", NoResponse)

\* the user edits the prompt input ("script", "part")
TypePrompt ==
    /\ variant # "effects"
    /\ ~page.promptHidden
    /\ \E t \in Prompts :
         /\ t # page.promptValue
         /\ page' = [page EXCEPT !.promptValue = t]
    /\ last' = Last("type", TRUE, FALSE, "", NoResponse)
    /\ UNCHANGED <<variant, fx, currentSessionId, inflight, clickTimers>>

\* the user replaces the content of the editable story region ("effects")
EditStory ==
    /\ variant = "effects"
    /\ page.editable /\ page.focused
    /\ \E t \in Prompts :
         LET children == IF t = NoText THEN <<>> ELSE <<Node("text", t)>> IN
         /\ children # page.story
         /\ page' = setStory(page, children)
    /\ last' = Last("type", TRUE, FALSE, "", NoResponse)
    /\ UNCHANGED <<variant, fx, currentSessionId, inflight, clickTimers>>

\* the user puts the caret into the editable story region ("effects")
FocusStory ==
    /\ variant = "effects"
    /\ page.editable /\ ~page.focused
    /\ page' = focusStory(page)
    /\ last' = Last("focus", TRUE, FALSE, "", NoResponse)
    /\ UNCHANGED <<variant, fx, currentSessionId, inflight, clickTimers>>

\* the focus leaves the story region ("effects"), as when a button is clicked
BlurStory ==
    /\ variant = "effects"
    /\ page.focused
    /\ page' = blurStory(page)
    /\ last' = Last("blur", TRUE, FALSE, "", NoResponse)
    /\ UNCHANGED <<variant, fx, currentSessionId, inflight, clickTimers>>

\* a click on the start button: handleStartClick up to its await
StartClick ==
    /\ listenersAttached(variant, currentSessionId)
    /\ ~page.startDisabled /\ ~page.startHidden
    /\ IF startAccepted(variant, page)
       THEN \E env \in CueEnvs(fx) :
            LET p1 == startPrepare(variant, fx, page)
                sends == currentSessionId # NoSession
                            /\ ~cueThrows(fx, "success", env)
            IN
            /\ sends => Len(inflight) < MaxInflight
            /\ page' = IF cueThrows(fx, "success", env) THEN page
                       ELSE postToBackend_send(variant, currentSessionId, p1)
            /\ inflight' =
                 IF ~sends THEN inflight
                 ELSE Append(inflight,
                        [req |-> Request("/start", promptOf(variant, page),
                                         currentSessionId),
                         mode |-> Mode(variant, page)])
            /\ last' = LastCued("start", currentSessionId # NoSession,
                                "/start", fx, "success", env)
       ELSE /\ page' = startRejected(variant, page)
            /\ inflight' = inflight
            /\ last' = Last("start", FALSE, FALSE, "/start", NoResponse)
    /\ UNCHANGED <<variant, fx, currentSessionId, clickTimers>>

\* a click on an enabled choice button: its listener sets the 300 ms timer.
\* The timers set by setTimeout(enableInteraction, 0 or 50) that are pending
\* now are due before it (`wait`).
ChoiceClick ==
    /\ Len(clickTimers) < MaxClickTimers
    /\ \E i \in 1..Len(page.choices.buttons) :
         /\ ~page.choices.buttons[i].disabled
         /\ clickTimers' = Append(clickTimers,
                              [text |-> page.choices.buttons[i].text,
                               wait |-> page.enableTimers])
    /\ last' = Last("choiceClick", TRUE, FALSE, "", NoResponse)
    /\ UNCHANGED <<variant, fx, currentSessionId, page, inflight>>

\* the oldest 300 ms timer fires: handleChoiceClick(text) up to its await
ChoiceTimer ==
    /\ clickTimers # <<>>
    /\ Head(clickTimers).wait = 0
    /\ clickTimers' = Tail(clickTimers)
    /\ IF ~page.isLoading
       THEN \E env \in CueEnvs(fx) :
            LET p1 == renderWaiting(variant, fx, page, ProcessingText)
                sends == currentSessionId # NoSession
                            /\ ~cueThrows(fx, "click", env)
            IN
            /\ sends => Len(inflight) < MaxInflight
            /\ page' = IF cueThrows(fx, "click", env) THEN page
                       ELSE postToBackend_send(variant, currentSessionId, p1)
            /\ inflight' =
                 IF ~sends THEN inflight
                 ELSE Append(inflight,
                        [req |-> Request("/choose", Head(clickTimers).text,
                                         currentSessionId),
                         mode |-> Mode(variant, page)])
            /\ last' = LastCued("choice", currentSessionId # NoSession,
                                "/choose", fx, "click", env)
       ELSE /\ UNCHANGED <<page, inflight>>
            /\ last' = Last("choice", FALSE, FALSE, "/choose", NoResponse)
    /\ UNCHANGED <<variant, fx, currentSessionId>>

\* a quit that tells the backend: handleQuitClick followed by a request
QuitClick_posting ==
    /\ variant = "part"
    /\ listenersAttached(variant, currentSessionId)
    /\ ~page.quitHidden /\ ~page.quitDisabled
    /\ Len(inflight) < MaxInflight
    /\ page' = handleQuitClick(fx, page)
    /\ inflight' = Append(inflight,
                      [req |-> Request("/quit", NoText, currentSessionId),
                       mode |-> Mode(variant, page)])
    /\ last' = Last("quit", TRUE, TRUE, "/quit", NoResponse)
    /\ UNCHANGED <<variant, fx, currentSessionId, clickTimers>>

\* a click on the quit button ("part")
QuitClick ==
    /\ variant = "part"
    /\ listenersAttached(variant, currentSessionId)
    /\ ~page.quitHidden /\ ~page.quitDisabled
    /\ \E env \in CueEnvs(fx) :
         /\ page' = IF cueThrows(fx, "click", env) THEN page
                    ELSE handleQuitClick(fx, page)
         /\ last' = LastCued("quit", FALSE, "", fx, "click", env)
    /\ UNCHANGED <<variant, fx, currentSessionId, inflight, clickTimers>>

\* a click on the end-adventure button ("effects"), which is never disabled
EndAdventureClick ==
    /\ variant = "effects"
    /\ ~page.quitHidden
    /\ IF page.isLoading
       THEN /\ page' = page
            /\ last' = Last("quit", FALSE, FALSE, "", NoResponse)
       ELSE \E env \in CueEnvs(fx) :
            /\ page.enableTimers < MaxEnableTimers
            /\ page' = IF cueThrows(fx, "error", env) THEN page
                       ELSE handleEndAdventureClick(page)
            /\ last' = LastCued("quit", FALSE, "", fx, "error", env)
    /\ UNCHANGED <<variant, fx, currentSessionId, inflight, clickTimers>>

\* a timer set by setTimeout(enableInteraction, ...) fires
EnableTimer ==
    /\ page.enableTimers > 0
    /\ page' = enableInteraction(variant, [page EXCEPT !.enableTimers = @ - 1])
    /\ clickTimers' =
         [i \in 1..Len(clickTimers) |->
            [clickTimers[i] EXCEPT !.wait = IF @ > 0 THEN @ - 1 ELSE 0]]
    /\ last' = Last("enable", TRUE, FALSE, "", NoResponse)
    /\ UNCHANGED <<variant, fx, currentSessionId, inflight>>

\* a typeNextChar timer of the typewriter fires
TypeNextChar ==
    /\ page.tw.on
    /\ page' = typeNextChar(page)
    /\ last' = Last("typeNextChar", TRUE, FALSE, "", NoResponse)
    /\ UNCHANGED <<variant, fx, currentSessionId, inflight, clickTimers>>

\* a fetch settles with one of `bodies`: the rest of postToBackend, then the
\* rest of the handler
RespondFrom(bodies) ==
    /\ page.enableTimers < MaxEnableTimers
    /\ \E i \in 1..Len(inflight), r \in bodies :
         \E q \in {settle(variant, fx, page, inflight[i].req.endpoint, r)} :
         /\ page' = [q EXCEPT !.uncaught = FALSE]
         /\ Len(page'.story) <= MaxStoryNodes
         /\ inflight' = SubSeq(inflight, 1, i - 1)
                          \o SubSeq(inflight, i + 1, Len(inflight))
         /\ last' = [Last("response", TRUE, FALSE, inflight[i].req.endpoint, r)
                        EXCEPT !.threw = q.uncaught]
    /\ UNCHANGED <<variant, fx, currentSessionId, clickTimers>>

\* the backend answers with a body of the documented shape, or fails
Respond == RespondFrom(Responses)

\* the backend answers 2xx with a JSON body of another shape
RespondMalformed == RespondFrom(MalformedResponses)

Next ==
    \/ TypePrompt
    \/ EditStory
    \/ FocusStory
    \/ BlurStory
    \/ StartClick
    \/ ChoiceClick
    \/ ChoiceTimer
    \/ QuitClick
    \/ EndAdventureClick
    \/ EnableTimer
    \/ TypeNextChar
    \/ Respond

Spec == Init /\ [][Next]_vars

\* the image of the scene fails to load: the error event of sceneImage
ImageError ==
    /\ page.image.src # NoText /\ ~page.image.hidden
    /\ page.trackPending => page.loads.loading
    /\ page' = imageError(page)
    /\ last' = Last("imageError", TRUE, FALSE, "", NoResponse)
    /\ UNCHANGED <<variant, fx, currentSessionId, inflight, clickTimers>>

\* the narration starts to play: the play() of effects.js was allowed, or
\* the user pressed play on the controls of the audio player
AudioPlay ==
    /\ page.audio.src # NoText /\ ~page.audio.playing
    /\ page' = [page EXCEPT !.audio.playing = TRUE]
    /\ last' = Last("audioPlay", TRUE, FALSE, "", NoResponse)
    /\ UNCHANGED <<variant, fx, currentSessionId, inflight, clickTimers>>

\* the narration reaches its end, or the user pauses it
AudioEnded ==
    /\ page.audio.playing
    /\ page' = [page EXCEPT !.audio.playing = FALSE]
    /\ last' = Last("audioEnded", TRUE, FALSE, "", NoResponse)
    /\ UNCHANGED <<variant, fx, currentSessionId, inflight, clickTimers>>

\* the same page with the events of the image and of the audio player
MediaNext == Next \/ ImageError \/ AudioPlay \/ AudioEnded

MediaSpec == Init /\ [][MediaNext]_vars

\* the user types at the caret in the editable story region ("effects")
\* while it shows an error, leaving what the region holds in place.  With the caret inside the
\* placeholder paragraph the characters join its text; with the caret
\* elsewhere (after Enter, or a paste at the end) they make a node of
\* their own.
typeAtCaret(children, t, inPlaceholder) ==
    IF inPlaceholder
    THEN [i \in 1..Len(children) |->
            IF children[i] = placeholderP
            THEN Node("p.italic", storyOutputPlaceholderText \o t)
            ELSE children[i]]
    ELSE Append(children, Node("text", t))

\* the region holds characters typed at the caret
typedAtCaret(children) ==
    \E i \in 1..Len(children) :
        \/ children[i].k = "text"
        \/ children[i].k = "p.italic" /\ children[i] # placeholderP

\* (one insertion for each error shown)
TypeIntoStory ==
    /\ variant = "effects"
    /\ page.editable /\ page.focused
    /\ hasError(page.story) /\ ~typedAtCaret(page.story)
    /\ \E t \in Prompts \ {NoText, <<" ">>}, inPlaceholder \in BOOLEAN :
         /\ inPlaceholder => hasPlaceholderP(page.story)
         /\ ~inPlaceholder => Len(page.story) < MaxStoryNodes
         /\ page' = setStory(page, typeAtCaret(page.story, t, inPlaceholder))
    /\ last' = Last("type", TRUE, FALSE, "", NoResponse)
    /\ UNCHANGED <<variant, fx, currentSessionId, inflight, clickTimers>>

\* the program with both ways of editing the story region
EditNext == Next \/ TypeIntoStory

EditSpec == Init /\ [][EditNext]_vars

\* the backend answers non-2xx with a JSON body that has the fields of a turn
RespondFailure == RespondFrom(FailureBodies)

FailureNext == Next \/ RespondFailure

FailureSpec == Init /\ [][FailureNext]_vars

\* the same page with a backend that may also answer with malformed bodies
AnyBodyNext == Next \/ RespondMalformed

AnyBodySpec == Init /\ [][AnyBodyNext]_vars


\* The timer tasks of the event loop always run in the end: a pending
\* setTimeout callback is eventually called.  Nothing is assumed of the
\* user or of the backend, which may never answer.
FairSpec == Spec /\ WF_vars(EnableTimer) /\ WF_vars(TypeNextChar)

----------------------------------------------------------------------------
(* Vocabulary of the claims *)

requestOutstanding == inflight # <<>>

\* the quit button of "part" cannot be used when hidden or disabled; the
\* end-adventure button of "effects" is never disabled, its handler ignores
\* the click while isLoading
quitUnusable ==
    CASE variant = "script" -> TRUE
      [] variant = "part" -> page.quitHidden \/ page.quitDisabled
      [] variant = "effects" -> page.quitHidden \/ page.isLoading

choicesDisabled ==
    \A i \in 1..Len(page.choices.buttons) : page.choices.buttons[i].disabled

----------------------------------------------------------------------------
(* C1: at most one backend request is outstanding at any time, in every     *)
(* interleaving of clicks, click timers, responses and enableInteraction    *)
(* timers.                                                                  *)
C1_OneRequestAtATime == Len(inflight) <= 1

(* C2: a /choose request is issued only while the UI is in `active` mode;   *)
(* a choice delivered after quit/end or an error reset issues no request.   *)
C2_ChooseOnlyWhileActive ==
    \A i \in 1..Len(inflight) :
        inflight[i].req.endpoint = "/choose" => inflight[i].mode = "active"

(* C3: whenever a backend request is outstanding, isLoading is true, the    *)
(* loading overlay is shown, and the start, choice and quit/end controls    *)
(* are disabled.                                                            *)
C3_BusyWhileOutstanding ==
    requestOutstanding =>
        /\ page.isLoading
        /\ page.overlayShown
        /\ page.startDisabled
        /\ choicesDisabled
        /\ quitUnusable

(* C5: for every choice whose text is empty or whitespace-only, choose()    *)
(* issues no network request.                                               *)
C5_EmptyChoiceSendsNothing ==
    \A i \in 1..Len(inflight) :
        inflight[i].req.endpoint = "/choose" =>
            trim(inflight[i].req.data) # NoText


----------------------------------------------------------------------------
(* What a step leaves alone, and what a turn result looks like on the page *)

viewRegions(p) == <<p.story, p.tw, p.choices, p.image, p.audio>>
otherRegions(p) == <<p.choices, p.image, p.audio>>
controlVisibility(p) == <<p.startHidden, p.promptHidden, p.quitHidden, p.editable>>

startRanOnEmptyPrompt ==
    last'.op = "start" /\ promptOf(variant, page) = NoText

responseApplied == last.op = "response"
failureApplied == responseApplied /\ last.r.status # "ok"
turnApplied == responseApplied /\ last.r.status = "ok"

hasNarrative(children) ==
    \E i \in 1..Len(children) : children[i].k \in {"p", "cursor"}

\* the story region shows `text` as its narrative: the paragraph holds the
\* formatted text, or the typewriter is typing exactly that text into it
narrativeIs(p, text) ==
    /\ p.story # <<>>
    /\ p.story[1].k = "p"
    /\ IF p.tw.on THEN joinBr(p.tw.segs) = formattedText(text)
       ELSE p.story[1].v = formattedText(text)

imageIs(p, url) ==
    IF url # NoText
    THEN p.image.src = url /\ ~p.image.hidden /\ p.image.phHidden
    ELSE p.image.src = NoText /\ p.image.hidden /\ ~p.image.phHidden

audioIs(p, url) ==
    IF url # NoText
    THEN p.audio.src = url /\ ~p.audio.hidden
    ELSE p.audio.src = NoText /\ p.audio.hidden

choicesAre(p, choices) ==
    /\ Len(p.choices.buttons) = Len(choices)
    /\ \A i \in 1..Len(choices) :
         p.choices.buttons[i].text = cleanChoiceText(choices[i])

\* the awaiting-start controls are there and the per-turn controls are gone
awaitingStartControls(p) ==
    /\ promptShown(variant, p)
    /\ ~p.startHidden
    /\ p.quitHidden
    /\ p.choices.buttons = <<>>

\* the start controls are gone: the game is on
activeControls(p) == ~promptShown(variant, p)

----------------------------------------------------------------------------
(* C4 (as stated): for every empty or whitespace-only prompt (in "effects": *)
(* also the placeholder), start() issues no request, does not set the busy  *)
(* flag and leaves the mode, every view region and the visibility of the    *)
(* controls unchanged.                                                      *)
C4_EmptyPromptChangesNothing ==
    [][startRanOnEmptyPrompt =>
          /\ inflight' = inflight
          /\ page'.isLoading = page.isLoading
          /\ Mode(variant, page') = Mode(variant, page)
          /\ viewRegions(page') = viewRegions(page)
          /\ controlVisibility(page') = controlVisibility(page)]_vars

(* C4 (amended): as stated, except that in "effects", when the story region *)
(* holds only the placeholder paragraph and has not the focus, the          *)
(* storyOutput.focus() of the rejected start removes that paragraph.        *)
C4_EmptyPromptSendsNothing ==
    [][startRanOnEmptyPrompt =>
          /\ inflight' = inflight
          /\ page'.isLoading = page.isLoading
          /\ Mode(variant, page') = Mode(variant, page)
          /\ otherRegions(page') = otherRegions(page)
          /\ controlVisibility(page') = controlVisibility(page)
          /\ \/ page'.story = page.story /\ page'.tw = page.tw
             \/ /\ variant = "effects"
                /\ ~page.focused
                /\ page.story = <<placeholderP>>
                /\ page'.story = <<>>]_vars

C4_Witness ==
    /\ last.op = "start" /\ ~last.accepted
    /\ ~page.isLoading
    /\ variant # "effects"
    /\ page.promptValue = <<" ">>

(* C6: after every request failure the story region shows the error         *)
(* message in place of the narrative, the awaiting-start controls are        *)
(* restored, and eventually the busy flag is cleared and the start control   *)
(* is enabled.                                                               *)
C6_ErrorShown ==
    /\ page.story # <<>>
    /\ page.story[1] = errorElement(errorMessage(variant, last.r))
    /\ ~hasNarrative(page.story)
    /\ promptShown(variant, page)
    /\ ~page.startHidden

C6_FailureRecovers ==
    /\ [](failureApplied => C6_ErrorShown)
    /\ failureApplied ~> (~page.isLoading /\ ~page.startDisabled)

C6_Witness == failureApplied /\ page.isLoading /\ page.startDisabled

(* C7: when a response has `error` set and `scene` empty or absent, the UI  *)
(* resets to awaiting-start and the story region displays the error text.   *)
C7_ErrorOnlyResets ==
    (turnApplied /\ last.r.error # NoText /\ last.r.scene = NoText) =>
        /\ awaitingStartControls(page)
        /\ page.story # <<>>
        /\ page.story[1] = errorElement(last.r.error)

(* C8: when a response carries a non-empty `scene` and an `error`, the turn  *)
(* is rendered as a successful one, the warning is a separate element after  *)
(* the narrative, displayError is not called and the mode becomes active.    *)
C8_WarningTurnRendered ==
    (turnApplied /\ last.r.error # NoText /\ last.r.scene # NoText) =>
        /\ narrativeIs(page, last.r.scene)
        /\ page.story[Len(page.story)] = warningElement(last.r.error)
        /\ ~hasError(page.story)
        /\ imageIs(page, last.r.image_url)
        /\ audioIs(page, last.r.audio_url)
        /\ choicesAre(page, last.r.choices)
        /\ activeControls(page)

(* C9: when a response with non-empty `scene` and no `error` is applied,    *)
(* the story region shows that scene, the image, audio and choices regions  *)
(* reflect the response, and the mode becomes active.                       *)
C9_TurnRendered ==
    (turnApplied /\ last.r.error = NoText /\ last.r.scene # NoText) =>
        /\ narrativeIs(page, last.r.scene)
        /\ imageIs(page, last.r.image_url)
        /\ audioIs(page, last.r.audio_url)
        /\ choicesAre(page, last.r.choices)
        /\ activeControls(page)
        /\ page.startDisabled \/ page.startHidden

(* C10: from whichever mode quit()/end() is invoked, the resulting view is  *)
(* exactly the rendering produced at page load.                             *)
C10_QuitRestoresInitial ==
    (last.op = "quit" /\ last.accepted) =>
        LET initial == pageLoad(variant, fx, currentSessionId) IN
        /\ viewRegions(page) = viewRegions(initial)
        /\ controlVisibility(page) = controlVisibility(initial)
        /\ page.promptValue = initial.promptValue
        /\ page.startDisabled = initial.startDisabled
        /\ page.isLoading = initial.isLoading


(* C11: quit()/end() is local-only: it issues no network request, does not  *)
(* change the session identifier and neither adds nor removes an            *)
(* outstanding request.                                                     *)
C11_QuitIsLocal ==
    [][last'.op = "quit" =>
          /\ inflight' = inflight
          /\ currentSessionId' = currentSessionId]_vars

C11_Witness == last.op = "quit" /\ last.accepted /\ requestOutstanding


(* C12: while the busy flag is set, a user action (start, choice, quit/end) *)
(* is a no-op: the busy flag, every view region, the visibility of the      *)
(* controls and the outstanding requests are unchanged, and the action is   *)
(* not queued to take effect later.                                         *)
userActionRan == last'.op \in {"start", "choiceClick", "choice", "quit"}

C12_BusyIgnoresActions ==
    [][(page.isLoading /\ userActionRan) =>
          /\ page' = page
          /\ inflight' = inflight
          /\ Len(clickTimers') <= Len(clickTimers)]_vars


(* C13: every /choose request carries a choice equal to the ordinal-        *)
(* stripped text of one of the labels of the most recently rendered choice  *)
(* list (the list of the last applied turn result), whatever the order of   *)
(* clicks, click timers, responses and enableInteraction timers.            *)
chooseIssued ==
    /\ Len(inflight') = Len(inflight) + 1
    /\ inflight'[Len(inflight')].req.endpoint = "/choose"

C13_ChoiceFromLatestList ==
    [][chooseIssued =>
          \E i \in 1..Len(page.turnChoices) :
              inflight'[Len(inflight')].req.data =
                  cleanChoiceText(page.turnChoices[i])]_vars


(* C14: a /start request is issued only while the UI shows the awaiting-    *)
(* start controls; a start action arriving in `active` or `busy` mode       *)
(* issues no request and leaves the story, choices, image and audio         *)
(* regions unchanged.                                                       *)
awaitingStartModes == {"awaiting-start", "error"}

C14_StartOnlyWhenAwaiting ==
    /\ [](\A i \in 1..Len(inflight) :
             inflight[i].req.endpoint = "/start" =>
                 inflight[i].mode \in awaitingStartModes)
    /\ [][(last'.op = "start" /\ Mode(variant, page) \notin awaitingStartModes) =>
             /\ inflight' = inflight
             /\ viewRegions(page') = viewRegions(page)]_vars

C14_Witness ==
    \E i \in 1..Len(inflight) :
        inflight[i].req.endpoint = "/start" /\ inflight[i].mode = "error"


(* C15: in every reachable state the start control is enabled only if the  *)
(* UI is in awaiting-start mode and no request is outstanding, and the      *)
(* per-turn controls (choice buttons, quit/end button) are enabled only if  *)
(* the UI is in `active` mode and no request is outstanding.                *)
startEnabled == ~page.startDisabled /\ ~page.startHidden

perTurnEnabled == ~choicesDisabled \/ ~quitUnusable

C15_ControlsMatchMode ==
    /\ startEnabled =>
          Mode(variant, page) \in awaitingStartModes /\ ~requestOutstanding
    /\ perTurnEnabled =>
          Mode(variant, page) = "active" /\ ~requestOutstanding


(* C16: once the outstanding request has completed (success or failure)     *)
(* the busy flag is eventually cleared and the overlay hidden; as long as   *)
(* the request has not completed the UI stays busy, and no user action      *)
(* issues another request or clears the busy flag.                          *)
busyShown == page.isLoading /\ page.overlayShown

C16_BusyUntilCompletion ==
    /\ responseApplied ~> (~page.isLoading /\ ~page.overlayShown)
    /\ [](requestOutstanding => busyShown)
    /\ [][(requestOutstanding /\ userActionRan) =>
             /\ inflight' = inflight
             /\ page'.isLoading]_vars


(* C17: requests and responses strictly alternate: a request is issued only *)
(* when the response (or failure) of the one before it has been applied,    *)
(* and a response is applied only for the oldest outstanding request, so    *)
(* that no continuation of an earlier request overwrites a later turn.      *)
requestIssued == Len(inflight') > Len(inflight)
responseTaken == Len(inflight') < Len(inflight)

C17_StrictAlternation ==
    [][/\ requestIssued => inflight = <<>>
       /\ responseTaken => inflight' = Tail(inflight)]_vars


(* C18: nothing is retried automatically: every request is issued by the    *)
(* handler of one accepted user action (a start click, or the delivery of   *)
(* one choice click) and is the only request of that action; and while the  *)
(* page shows the error of a failed request, no request is issued but by    *)
(* the user submitting start again.                                         *)
C18_NoAutomaticRetry ==
    [][requestIssued =>
          /\ Len(inflight') = Len(inflight) + 1
          /\ \/ last'.op = "start" /\ last'.accepted
             \/ /\ last'.op = "choice" /\ last'.accepted
                /\ clickTimers # <<>> /\ clickTimers' = Tail(clickTimers)
          /\ hasError(page.story) => last'.op = "start"]_vars


(* C19: the session identifier is never written after page load, and every  *)
(* request issued carries a session_id equal to it, also when the object    *)
(* the handler passes has a session_id key of its own.                      *)
Payloads ==
    { payload("/start", <<"g">>),
      payload("/choose", <<"L">>),
      [choice |-> <<"L">>, session_id |-> "session-0"] }

C19_SessionCarried ==
    /\ [](\A i \in 1..Len(inflight) :
             inflight[i].req.session_id = currentSessionId)
    /\ [](\A d \in Payloads :
             spread(d, currentSessionId)["session_id"] = currentSessionId)
    /\ [][currentSessionId' = currentSessionId]_vars

C19_Witness ==
    /\ requestOutstanding
    /\ currentSessionId # NoSession
    /\ inflight[1].req.session_id = currentSessionId


(* C20: after displayError has run, the choices region holds no choice      *)
(* buttons and no "story concludes" notice, the image region shows its      *)
(* placeholder with no image, and the audio player is hidden.               *)
errorDisplayed ==
    \/ failureApplied
    \/ last.op \in {"start", "choice"} /\ last.accepted /\ ~last.sent

C20_ErrorClearsRegions ==
    errorDisplayed =>
        /\ page.choices = EmptyChoices
        /\ imageIs(page, NoText)
        /\ audioIs(page, NoText)


----------------------------------------------------------------------------
(* The rendering functions on their own.  The page is as the page load      *)
(* leaves it, or as an accepted start click leaves it (the game has         *)
(* started: the prompt area is hidden, the story region is not editable);   *)
(* every step calls one rendering function with an input of its domain.     *)

MaxChoices == 2       \* length of the choice lists given to updateChoices

Labels ==
    { <<"L">>,                               \* no prefix
      <<"1", "L">>,                          \* digits without the dot
      <<"1", ".", " ", "L">>,                \* "1. L"
      <<"1", ".", "L">>,                     \* "1.L"
      <<"2", ".">>,                          \* the prefix alone
      <<"1", "2", ".", " ", "\n", "L">>,     \* "12. \nL"
      <<"1", ".", " ", "2", ".", " ", "L">> } \* "1. 2. L"

RECURSIVE Lists(_, _)
Lists(S, n) ==
    IF n = 0 THEN { <<>> }
    ELSE LET shorter == Lists(S, n - 1) IN
         shorter \cup { Append(l, x) : l \in shorter, x \in S }

RenderChoiceLists == Lists(Labels, MaxChoices)

RenderPages(v, f) ==
    LET loaded == pageLoad(v, f, "session-1")
        typed == IF v = "effects" THEN setStory(loaded, <<Node("text", <<"g">>)>>)
                 ELSE [loaded EXCEPT !.promptValue = <<"g">>]
    IN  { loaded, postToBackend_send(v, "session-1", startPrepare(v, f, typed)) }

RenderInit ==
    /\ variant \in Variants
    /\ fx \in BOOLEAN
    /\ variant = "effects" => fx
    /\ currentSessionId = "session-1"
    /\ page \in RenderPages(variant, fx)
    /\ inflight = <<>>
    /\ clickTimers = <<>>
    /\ last = Last("load", TRUE, FALSE, "", NoResponse)

\* updateChoices(choices)
RenderChoices ==
    /\ \E c \in RenderChoiceLists :
         /\ page' = updateChoices(variant, page, c)
         /\ last' = Last("updateChoices", TRUE, FALSE, "",
                         [NoResponse EXCEPT !.choices = c])
    /\ UNCHANGED <<variant, fx, currentSessionId, inflight, clickTimers>>

\* what updateStoryOutput may be given: null, "" and a text of two lines
RenderTexts == { Null, NoText, <<"a", "\n", " ", "b">> }

\* updateStoryOutput(text)
RenderNarrative ==
    /\ \E t \in RenderTexts :
         \E q \in {updateStoryOutput(variant, fx, page, t)} :
            /\ page' = [q EXCEPT !.uncaught = FALSE]
            /\ last' = [Last("updateStoryOutput", TRUE, FALSE, "",
                              [NoResponse EXCEPT !.scene = t])
                           EXCEPT !.threw = q.uncaught]
    /\ UNCHANGED <<variant, fx, currentSessionId, inflight, clickTimers>>

\* updateSceneImage(imageUrl); null and "" both read as NoText
RenderImage ==
    /\ \E u \in Urls :
         /\ page' = updateSceneImage(variant, page, u)
         /\ last' = Last("updateSceneImage", TRUE, FALSE, "",
                         [NoResponse EXCEPT !.image_url = u])
    /\ UNCHANGED <<variant, fx, currentSessionId, inflight, clickTimers>>

\* updateAudioPlayer(audioUrl); null and "" both read as NoText
RenderAudio ==
    /\ \E u \in Urls :
         /\ page' = updateAudioPlayer(variant, page, u)
         /\ last' = Last("updateAudioPlayer", TRUE, FALSE, "",
                         [NoResponse EXCEPT !.audio_url = u])
    /\ UNCHANGED <<variant, fx, currentSessionId, inflight, clickTimers>>

RenderNext ==
    \/ RenderChoices
    \/ RenderNarrative
    \/ RenderImage
    \/ RenderAudio
    \/ TypeNextChar
    \/ ImageError
    \/ AudioPlay
    \/ AudioEnded

RenderSpec == RenderInit /\ [][RenderNext]_vars

----------------------------------------------------------------------------
(* C21: updateChoices with a list of n >= 1 labels gives exactly n choice   *)
(* buttons in the order of the list, button i showing the ordinal i and the *)
(* label without its one leading prefix of digits, a dot and the white      *)
(* space after it; with an empty list it gives no button, and the terminal  *)
(* notice exactly when the game has started.                                *)
choicesRendered == last'.op = "updateChoices"

\* s begins with n >= 1 digits and a dot, and white space up to position m
ordinalPrefix(s, n, m) ==
    /\ n >= 1 /\ n + 1 <= m /\ m <= Len(s)
    /\ \A i \in 1..n : s[i] \in Digit
    /\ s[n + 1] = "."
    /\ \A i \in (n + 2)..m : s[i] \in Whitespace
    /\ m = Len(s) \/ s[m + 1] \notin Whitespace

withoutOnePrefix(label, shown) ==
    IF \E n, m \in 1..Len(label) : ordinalPrefix(label, n, m)
    THEN \E n, m \in 1..Len(label) :
            /\ ordinalPrefix(label, n, m)
            /\ shown = SubSeq(label, m + 1, Len(label))
    ELSE shown = label

gameStarted(p) == ~promptShown(variant, p)

C21_ChoicesRendered ==
    [][choicesRendered =>
          LET c == last'.r.choices
              shown == page'.choices
          IN  /\ Len(shown.buttons) = Len(c)
              /\ \A i \in 1..Len(c) :
                    /\ shown.buttons[i].prefix = i
                    /\ withoutOnePrefix(c[i], shown.buttons[i].text)
              /\ c # <<>> => ~shown.endMessage
              /\ c = <<>> => (shown.endMessage <=> gameStarted(page))]_vars

C21_Witness ==
    /\ last.op = "updateChoices"
    /\ last.r.choices = << <<"1", ".", " ", "2", ".", " ", "L">>, <<"2", ".">> >>
    /\ page.choices.buttons[1].text = <<"2", ".", " ", "L">>
    /\ page.choices.buttons[2].text = <<>>
    /\ page.choices.buttons[2].prefix = 2


(* C22: no handler run ends in an uncaught exception or an unhandled        *)
(* promise rejection, whatever body the backend returns with a 2xx status:  *)
(* the handler renders the turn or ends in the displayError state.          *)
C22_NoUncaughtException == ~last.threw


(* C23: each render operation (narrative, choices, image, audio) is         *)
(* idempotent and region-scoped: called twice in a row with the same input  *)
(* it leaves the view as one call does, it writes no region but its own,    *)
(* and called with a null or empty input it returns normally and leaves     *)
(* its region cleared.                                                      *)
RenderOps ==
    {"updateStoryOutput", "updateChoices", "updateSceneImage", "updateAudioPlayer"}

\* the regions of the page, the one `op` owns left out
regionsBut(op, p) ==
    << IF op = "updateStoryOutput" THEN <<>> ELSE <<p.story, p.tw>>,
       IF op = "updateChoices" THEN <<>> ELSE <<p.choices>>,
       IF op = "updateSceneImage" THEN <<>> ELSE <<p.image>>,
       IF op = "updateAudioPlayer" THEN <<>> ELSE <<p.audio>> >>

\* the call `op` made with the input recorded in r, made on p
renderAgain(op, p, r) ==
    CASE op = "updateStoryOutput" -> updateStoryOutput(variant, fx, p, r.scene)
      [] op = "updateChoices" -> updateChoices(variant, p, r.choices)
      [] op = "updateSceneImage" -> updateSceneImage(variant, p, r.image_url)
      [] op = "updateAudioPlayer" -> updateAudioPlayer(variant, p, r.audio_url)

emptyInput(op, r) ==
    CASE op = "updateStoryOutput" -> r.scene \in {Null, NoText}
      [] op = "updateChoices" -> r.choices = <<>>
      [] op = "updateSceneImage" -> r.image_url = NoText
      [] op = "updateAudioPlayer" -> r.audio_url = NoText

\* the region of `op` shows nothing: no text but the placeholder's, no
\* choice button, no image, no audio player
regionCleared(op, p) ==
    CASE op = "updateStoryOutput" ->
            textContent(p.story) = NoText \/ p.story = <<placeholderP>>
      [] op = "updateChoices" -> p.choices.buttons = <<>> /\ ~p.choices.heading
      [] op = "updateSceneImage" -> imageIs(p, NoText)
      [] op = "updateAudioPlayer" -> audioIs(p, NoText)

C23_Idempotent ==
    [][last'.op \in RenderOps =>
          [renderAgain(last'.op, page', last'.r) EXCEPT !.uncaught = FALSE]
              = page']_vars

C23_RegionScoped ==
    [][last'.op \in RenderOps =>
          regionsBut(last'.op, page') = regionsBut(last'.op, page)]_vars

C23_EmptyInputClears ==
    [][(last'.op \in RenderOps /\ emptyInput(last'.op, last'.r)) =>
          ~last'.threw /\ regionCleared(last'.op, page')]_vars

C23_RenderOperations ==
    C23_Idempotent /\ C23_RegionScoped /\ C23_EmptyInputClears


(* C25: sounds.play never blocks gameplay: for an unknown cue name, a cue   *)
(* whose audio construction throws and a cue whose playback promise is      *)
(* rejected, play() returns without throwing and only logs a warning, and   *)
(* the start, choice or quit handler that called it goes on exactly as if   *)
(* the cue had played.                                                      *)
cueFailed == last'.sound = "warned" /\ last'.accepted

\* what the handler of the step does when its cue plays
asIfPlayed ==
    CASE last'.op = "start" ->
            postToBackend_send(variant, currentSessionId,
                               startPrepare(variant, fx, page))
      [] last'.op = "choice" ->
            postToBackend_send(variant, currentSessionId,
                               renderWaiting(variant, fx, page, ProcessingText))
      [] last'.op = "quit" ->
            IF variant = "part" THEN handleQuitClick(fx, page)
            ELSE handleEndAdventureClick(page)

C25_SoundsNeverBlock ==
    /\ [](\A soundName \in SoundCues \cup {"unknown"}, env \in SoundEnvs :
             /\ ~soundsPlay(soundName, env).threw
             /\ (soundName = "unknown" \/ env # "plays")
                   => soundsPlay(soundName, env).warned)
    /\ [][cueFailed =>
             /\ ~last'.threw
             /\ page' = asIfPlayed
             /\ (last'.op \in {"start", "choice"} /\ currentSessionId # NoSession)
                   => /\ Len(inflight') = Len(inflight) + 1
                      /\ inflight'[Len(inflight')].req.endpoint = last'.endpoint]_vars

C25_Witness ==
    /\ last.op = "choice" /\ last.sound = "warned"
    /\ requestOutstanding
    /\ page.isLoading


(* C24: the effects layer does not influence control flow or network        *)
(* behaviour.  In the builds where the layer is optional (script.js,        *)
(* part_001), a run with window.dungeonEffects and a run without it, given  *)
(* the same user actions and backend responses, issue the same requests     *)
(* and pass through the same busy-flag values and UI modes.  Stated as an   *)
(* unwinding: every step of the page is matched, from the page without      *)
(* what the typewriter wrote, by the same handler run with the layer        *)
(* switched the other way, up to what the typewriter writes.                *)
layerOptional == variant \in {"script", "part"}

\* the page without what the typewriter writes: the story region keeps its
\* error blocks only
control(p) ==
    [p EXCEPT !.story = SelectSeq(@, LAMBDA n : n.k = "errorDiv"),
              !.tw = NoTypewriter]

\* the step the page takes, taken from control(page) with the layer switched
otherRun ==
    LET q == control(page)
        f == ~fx
    IN  CASE last'.op = "start" ->
                IF last'.accepted
                THEN postToBackend_send(variant, currentSessionId,
                                        startPrepare(variant, f, q))
                ELSE startRejected(variant, q)
          [] last'.op = "choice" ->
                IF last'.accepted
                THEN postToBackend_send(variant, currentSessionId,
                         renderWaiting(variant, f, q, ProcessingText))
                ELSE q
          [] last'.op = "quit" -> handleQuitClick(f, q)
          [] last'.op = "response" ->
                [settle(variant, f, q, last'.endpoint, last'.r)
                    EXCEPT !.uncaught = FALSE]
          [] last'.op = "enable" ->
                enableInteraction(variant, [q EXCEPT !.enableTimers = @ - 1])
          [] last'.op = "type" -> [q EXCEPT !.promptValue = page'.promptValue]
          [] OTHER -> q

C24_EffectsDoNotInterfere ==
    /\ [](layerOptional =>
             /\ Mode(variant, page) = Mode(variant, control(page))
             /\ startAccepted(variant, page) = startAccepted(variant, control(page))
             /\ promptOf(variant, page) = promptOf(variant, control(page)))
    /\ [][layerOptional =>
             /\ control(page') = control(otherRun)
             /\ ~last'.threw]_vars

C24_Witness ==
    /\ layerOptional /\ fx
    /\ last.op = "typeNextChar"
    /\ page.tw.on /\ page.tw.content # NoText
    /\ requestOutstanding
    /\ inflight[1].req.endpoint = "/choose"


(* C26: after updateSceneImage with a URL the image is shown and the        *)
(* placeholder hidden; if that image then fails to load, the image is       *)
(* hidden and the placeholder shows the error text; after updateSceneImage  *)
(* with an absent URL the image is hidden with no source and the            *)
(* placeholder shows the "no visual" text.                                  *)
placeholderShows(p, ph) == ~p.image.phHidden /\ p.image.ph = ph

C26_ImageShown ==
    [][(last'.op = "updateSceneImage" /\ last'.r.image_url # NoText) =>
          imageIs(page', last'.r.image_url)]_vars

C26_ImageFailed ==
    [][last'.op = "imageError" =>
          page'.image.hidden /\ placeholderShows(page', "error")]_vars

C26_ImageAbsent ==
    [][(last'.op = "updateSceneImage" /\ last'.r.image_url = NoText) =>
          /\ imageIs(page', NoText)
          /\ placeholderShows(page', "novisual")]_vars

C26_ImageRegion == C26_ImageShown /\ C26_ImageFailed /\ C26_ImageAbsent


(* C27: after updateAudioPlayer with an absent URL the audio player is      *)
(* hidden and no narration is playing: a narration started for one turn is  *)
(* not still playing once the next choice, a quit or an error has cleared   *)
(* the audio region.                                                        *)
audioCleared == page.audio.src = NoText

C27_ClearedAudioIsSilent ==
    audioCleared => page.audio.hidden /\ ~page.audio.playing


----------------------------------------------------------------------------
(* C28 *)

\* the page shows what displayError left
afterDisplayError == ~page.isLoading /\ Mode(variant, page) = "error"

\* the prompt the user has entered: the value of the prompt input, or the
\* text the user typed into the editable story region
enteredPrompt(v, p) ==
    IF v = "effects"
    THEN \E i \in 1..Len(p.story) :
            \/ p.story[i].k = "text" /\ trim(p.story[i].v) # NoText
            \/ p.story[i].k = "p.italic" /\ p.story[i] # placeholderP
    ELSE trim(p.promptValue) # NoText

retryStart ==
    /\ afterDisplayError
    /\ currentSessionId # NoSession
    /\ enteredPrompt(variant, page)
    /\ last'.op = "start"

\* C28: after displayError, a start action with a non-empty prompt entered
\* by the user is accepted and posts a request to /start, also where the
\* editable story region still holds the error block and the placeholder
\* paragraph.
C28_RetryStarts ==
    [][retryStart =>
         /\ last'.accepted
         /\ Len(inflight') = Len(inflight) + 1
         /\ inflight'[Len(inflight')].req.endpoint = "/start"]_vars


----------------------------------------------------------------------------
(* C29 *)

\* the task in which a fetch settles, started with the busy flag set
outcomeApplied == last'.op = "response" /\ page.isLoading

\* the step clears the busy flag
busyCleared == page.isLoading /\ ~page'.isLoading

\* displayError of effects.js, which ends with a call of enableInteraction
errorShownEnabled == variant = "effects" /\ hasError(page'.story)

allEnabled(buttons) == \A i \in 1..Len(buttons) : ~buttons[i].disabled

----------------------------------------------------------------------------
(* C30 *)

noticeShown(p) == p.choices.endMessage

\* the step applies a turn result whose choice list is empty
emptyTurnApplied ==
    /\ last'.op = "response"
    /\ last'.r.status = "ok"
    /\ ~(last'.r.error # NoText /\ last'.r.scene = NoText)
    /\ last'.r.choices = <<>>

\* the step issues a request, applies a response, or is a quit
turnSuperseded ==
    \/ last'.op \in {"response", "quit"}
    \/ last'.op \in {"start", "choice"} /\ last'.accepted

\* C30: the "story concludes" notice is in the choices region only when the
\* turn result applied last had an empty choice list: it comes with such a
\* turn, and it is gone once a request is issued, an error is displayed or
\* the game is quit.
C30_NoticeOnlyAfterLastTurn ==
    [][noticeShown(page') =>
          \/ emptyTurnApplied
          \/ noticeShown(page) /\ ~turnSuperseded]_vars


----------------------------------------------------------------------------
(* C31 *)

\* C31: while a request is outstanding (from the accepted start or choice
\* to the task that applies its response) the choices region holds no
\* choice button.
C31_NoButtonsWhileOutstanding ==
    requestOutstanding => page.choices.buttons = <<>>


----------------------------------------------------------------------------
(* C32 *)

sessionMissing == currentSessionId = NoSession

startUsable(p) == ~p.startDisabled /\ ~p.startHidden

\* C32: with an empty session identifier no request is ever issued and the
\* busy flag is never set; in script.js and effects.js the prompt is shown
\* and the start button usable (also after postToBackend has called
\* displayError), in part_001 no handler runs and the start button is
\* disabled.
C32_NoSessionNoRequest ==
    sessionMissing =>
        /\ inflight = <<>>
        /\ ~page.isLoading
        /\ IF variant = "part"
           THEN page.startDisabled /\ last.op \notin {"start", "choice", "quit"}
           ELSE promptShown(variant, page) /\ startUsable(page)

\* postToBackend has refused to send for want of a session identifier
C32_Witness ==
    /\ sessionMissing
    /\ last.op = "start" /\ last.accepted /\ ~last.sent
    /\ hasError(page.story)


----------------------------------------------------------------------------
(* C33 *)

\* the messages that tell of a failed connection and nothing of the answer
ConnectivityErrorTexts ==
    { NetworkErrorText, FetchErrorText, NonJsonText, NonJsonStatusText }

StatusTexts == { StatusText, StatusText_part }

\* the story region shows an error block with `message`
errorIs(p, message) ==
    \E i \in 1..Len(p.story) : p.story[i] = errorElement(message)

errorIsOneOf(p, messages) == \E m \in messages : errorIs(p, m)

transportFailed == last.op = "response" /\ last.r.status \in {"network", "nonjson", "nonjson_http"}
httpFailed == last.op = "response" /\ last.r.status = "http"

\* no field of the response is rendered
nothingRendered(p) ==
    /\ ~hasNarrative(p.story)
    /\ p.choices.buttons = <<>>
    /\ imageIs(p, NoText)
    /\ audioIs(p, NoText)

\* C33: a network exception or a body that is not JSON is shown as a generic
\* connectivity error; a non-2xx answer with a JSON body is shown with the
\* body's `error` text when it has one and otherwise with a message naming
\* the status; in no such case is the narrative, image, audio or choices of
\* the response rendered.
C33_FailuresSurfaced ==
    /\ transportFailed =>
          errorIsOneOf(page, ConnectivityErrorTexts) /\ nothingRendered(page)
    /\ httpFailed =>
          /\ IF last.r.error # NoText THEN errorIs(page, last.r.error)
             ELSE errorIsOneOf(page, StatusTexts)
          /\ nothingRendered(page)


----------------------------------------------------------------------------
(* C34 *)

sceneMissing == turnApplied /\ last.r.error = NoText /\ last.r.scene = NoText

\* C34: a 2xx response with empty or absent `scene` and no `error` is a
\* successful turn: the story region shows the fallback text, the image,
\* audio and choices of the response are rendered, and the mode becomes
\* active.
C34_FallbackTurnRendered ==
    sceneMissing =>
        /\ narrativeIs(page, NoSceneText)
        /\ imageIs(page, last.r.image_url)
        /\ audioIs(page, last.r.audio_url)
        /\ choicesAre(page, last.r.choices)
        /\ activeControls(page)


----------------------------------------------------------------------------
(* The typewriter on its own: typeStory is called with a formatted text on  *)
(* the page of a started game, and only its timers run.                     *)

MaxTextLen == 4

TypedTexts == Lists({"a", " ", "\n"}, MaxTextLen)

TypeInit ==
    /\ variant \in Variants
    /\ fx = TRUE
    /\ currentSessionId = "session-1"
    /\ \E t \in TypedTexts, p \in RenderPages(variant, TRUE) :
         /\ ~promptShown(variant, p)
         /\ page = updateStoryOutput(variant, TRUE, p, t)
         /\ last = Last("updateStoryOutput", TRUE, FALSE, "",
                        [NoResponse EXCEPT !.scene = t])
    /\ inflight = <<>>
    /\ clickTimers = <<>>

TypeNext == TypeNextChar

\* a pending setTimeout callback is eventually called
TypeSpec == TypeInit /\ [][TypeNext]_vars /\ WF_vars(TypeNextChar)

----------------------------------------------------------------------------
(* C35 *)

typingStarted == last.op = "updateStoryOutput" /\ page.tw.on

typingEnds == page.tw.on /\ ~page'.tw.on

\* C35: the typewriter started by typeStory on a formatted text terminates:
\* after finitely many timer steps the cursor is removed, no timer is
\* pending any more, and the paragraph holds the formatted text exactly,
\* its segments in order with <br> between them and none at the end.
C35_TypewriterTerminates ==
    /\ [](typingStarted =>
             joinBr(page.tw.segs) = formattedText(last.r.scene))
    /\ [][typingEnds =>
             page'.story = <<Node("p", joinBr(page.tw.segs))>>]_vars
    /\ <>[](~page.tw.on)

\* a text of two segments has been typed to its end
C35_Witness ==
    /\ last.op = "typeNextChar"
    /\ ~page.tw.on
    /\ page.story = <<Node("p", <<"a", BR, "a">>)>>


----------------------------------------------------------------------------
(* Overlapping narrative renders: a typewriter chain is typing on the page  *)
(* of a started game, and updateStoryOutput, displayError and the warning   *)
(* note of a turn run while it has timers pending.  The chains whose nodes   *)
(* left the document are kept, with their timers.                           *)

MaxStale == 2

OverlapTexts == { <<"a">>, <<"a", "\n", " ", "b">> }

OverlapInit ==
    /\ variant \in Variants
    /\ fx = TRUE
    /\ currentSessionId = "session-1"
    /\ \E t \in OverlapTexts, p \in RenderPages(variant, TRUE) :
         /\ ~promptShown(variant, p)
         /\ page = updateStoryOutput(variant, TRUE,
                                     [p EXCEPT !.trackPending = TRUE], t)
         /\ last = Last("updateStoryOutput", TRUE, FALSE, "",
                        [NoResponse EXCEPT !.scene = t])
    /\ inflight = <<>>
    /\ clickTimers = <<>>

\* updateStoryOutput(text) while the chain is typing
OverlapNarrative ==
    /\ page.tw.on /\ Len(page.stale) < MaxStale
    /\ \E t \in OverlapTexts :
         /\ page' = updateStoryOutput(variant, fx, page, t)
         /\ last' = Last("updateStoryOutput", TRUE, FALSE, "",
                         [NoResponse EXCEPT !.scene = t])
    /\ UNCHANGED <<variant, fx, currentSessionId, inflight, clickTimers>>

\* displayError(message) while the chain is typing
OverlapError ==
    /\ page.tw.on /\ Len(page.stale) < MaxStale
    /\ page' = displayError(variant, page, <<"backend says no">>)
    /\ last' = Last("displayError", TRUE, FALSE, "",
                    [NoResponse EXCEPT !.error = <<"backend says no">>])
    /\ UNCHANGED <<variant, fx, currentSessionId, inflight, clickTimers>>

\* the warning note of a turn is appended while its narrative is typed
OverlapWarning ==
    /\ page.tw.on /\ Len(page.story) < MaxStoryNodes
    /\ \A i \in 1..Len(page.story) : page.story[i].k # "warning"
    /\ page' = appendWarning(page, [NoResponse EXCEPT !.error = <<"backend says no">>])
    /\ last' = Last("appendWarning", TRUE, FALSE, "",
                    [NoResponse EXCEPT !.error = <<"backend says no">>])
    /\ UNCHANGED <<variant, fx, currentSessionId, inflight, clickTimers>>

\* a typeNextChar timer of a chain that left the document fires
StaleTypeNextChar ==
    /\ \E i \in 1..Len(page.stale) :
         /\ page.stale[i].on
         /\ page' = staleTypeNextChar(page, i)
    /\ last' = Last("staleTypeNextChar", TRUE, FALSE, "", NoResponse)
    /\ UNCHANGED <<variant, fx, currentSessionId, inflight, clickTimers>>

OverlapNext ==
    \/ OverlapNarrative
    \/ OverlapError
    \/ OverlapWarning
    \/ TypeNextChar
    \/ StaleTypeNextChar

\* a pending setTimeout callback is eventually called
OverlapSpec ==
    OverlapInit /\ [][OverlapNext]_vars
        /\ WF_vars(TypeNextChar) /\ WF_vars(StaleTypeNextChar)

----------------------------------------------------------------------------
(* C36 *)

staleTimerFired == last'.op = "staleTypeNextChar"

\* what a render put beside the paragraph and the cursor of its typewriter
besideTypewriter(children) ==
    SelectSeq(children, LAMBDA n : n.k \notin {"p", "cursor"})

timersPending(p) == p.tw.on \/ \E i \in 1..Len(p.stale) : p.stale[i].on

\* the latest render was updateStoryOutput(t), the n-th to find a chain typing
narrativeRendered(t, n) ==
    /\ last.op = "updateStoryOutput" /\ last.r.scene = t
    /\ Len(page.stale) = n

\* the region shows the narrative t, typed to its end
narrativeTyped(p, t) ==
    /\ ~p.tw.on
    /\ p.story # <<>>
    /\ p.story[1] = Node("p", formattedText(t))
    /\ \A i \in 1..Len(p.story) : p.story[i].k \notin {"cursor", "errorDiv"}
    /\ \A i \in 2..Len(p.story) : p.story[i].k # "p"

\* C36: when narrative renders overlap, the timers of an earlier typewriter
\* chain never write into the story region nor remove anything the latest
\* render put there (paragraph, cursor, warning, error block); the chain of
\* the latest render types its text to the end, and in the end no timer is
\* pending and the region shows the latest render alone.
C36_LatestRenderWins ==
    /\ [][staleTimerFired =>
             page'.story = page.story /\ page'.tw = page.tw]_vars
    /\ [][last'.op = "typeNextChar" =>
             besideTypewriter(page'.story) = besideTypewriter(page.story)]_vars
    /\ [](last.op = "displayError" =>
             errorIs(page, last.r.error) /\ ~page.tw.on)
    /\ \A t \in OverlapTexts, n \in 0..MaxStale :
          narrativeRendered(t, n) ~>
              (narrativeTyped(page, t) \/ Len(page.stale) > n)
    /\ <>[](~timersPending(page))

\* a chain that left the document has typed to its end beside the chain of
\* the latest render, which shows its text and the warning
C36_Witness ==
    /\ last.op = "staleTypeNextChar"
    /\ Len(page.stale) = MaxStale
    /\ ~timersPending(page)
    /\ narrativeTyped(page, <<"a", "\n", " ", "b">>)
    /\ \E i \in 1..Len(page.story) : page.story[i].k = "warning"


----------------------------------------------------------------------------
(* The image of the scene with its loads: updateSceneImage is called again  *)
(* while the image it asked for before has not reported.                    *)

LoadInit ==
    /\ variant \in Variants
    /\ fx \in BOOLEAN
    /\ variant = "effects" => fx
    /\ currentSessionId = "session-1"
    /\ \E p \in RenderPages(variant, fx) :
         page = [p EXCEPT !.trackPending = TRUE]
    /\ inflight = <<>>
    /\ clickTimers = <<>>
    /\ last = Last("load", TRUE, FALSE, "", NoResponse)

\* the load event of sceneImage: onload logs
ImageLoaded ==
    /\ page.loads.loading
    /\ page' = [page EXCEPT !.loads.loading = FALSE]
    /\ last' = Last("imageLoaded", TRUE, FALSE, "", NoResponse)
    /\ UNCHANGED <<variant, fx, currentSessionId, inflight, clickTimers>>

\* the error event of an image that a later updateSceneImage gave up
LateImageError ==
    /\ page.loads.late
    /\ page' = lateImageError(page)
    /\ last' = Last("lateImageError", TRUE, FALSE, "", NoResponse)
    /\ UNCHANGED <<variant, fx, currentSessionId, inflight, clickTimers>>

LoadNext ==
    \/ RenderImage
    \/ ImageLoaded
    \/ ImageError
    \/ LateImageError

LoadSpec == LoadInit /\ [][LoadNext]_vars

----------------------------------------------------------------------------
(* C37 *)

\* C37: the load-failure callback of an earlier image never alters the
\* image region after a later updateSceneImage: what that call set (the
\* placeholder for an absent URL, or the newer image) stays until the next
\* call.
C37_LateErrorIgnored ==
    [][last'.op = "lateImageError" => page'.image = page.image]_vars

============================================================================
